---- MODULE Spec2Model ----
(***************************************************************************)
(* Model of the Privy user export tool (src/src/index.ts): the resumable   *)
(* paginated-fetch driver with its cursor file, timestamp (watermark)      *)
(* file, CSV sink and in-memory dedup set, and the retry loop of           *)
(* fetchPageOfUsers.                                                       *)
(*                                                                         *)
(* The specifications share the variables:                                 *)
(*   Spec        the driver (main / getAllUsers / appendUsersToFile) run   *)
(*               repeatedly against the same three files, with kills and   *)
(*               fatal fetch errors; fetchPageOfUsers appears by its       *)
(*               outcomes (a page, or a thrown error);                     *)
(*   BackoffSpec the retry loop inside one fetchPageOfUsers call.          *)
(*   LiveSpec    Spec with weak fairness on the steps of an invocation;    *)
(*   FaultSpec   Spec, plus a malformed response body and a failing read   *)
(*               of a state file at startup;                               *)
(*   CooldownSpec the counters and the cooldown test of getAllUsers' loop  *)
(*               over pages of realistic sizes.                            *)
(*                                                                         *)
(* Encoding.  A CSV line is represented by its first column with the       *)
(* quotes stripped (the only part the program ever reads back); the header *)
(* line is therefore "id".  JS null / undefined cursors are Null, the      *)
(* empty file content is "".  Timestamps are integers (unix seconds); the  *)
(* falsy values null / undefined / 0 / NaN are all NoTs, because the       *)
(* program only ever tests timestamps for truthiness.  UNIQUE_FILES is     *)
(* off: every invocation writes to the same sink.                          *)
(***************************************************************************)
EXTENDS Integers, Sequences, FiniteSets, TLC

\* ---------------------------------------------------------------- bounds
MaxPages == 2
MaxRuns == 3
MaxRetries == 7
MaxCoolPages == 4

\* ------------------------------------------------------ program constants
rateLimitMs == 1000
usersBatchSize == 2500
batchCooldownMs == 10000
maxRequestsPerMinute == 30
initialBackoffMs == 1000
maxBackoffMs == 60000
backoffFactor == 2
jitterFactorPermille == 100
maxNetworkRetries == 5

\* --------------------------------------------------------------- universe
Ids == {"a", "b"}
Header == "id"
Null == "<null>"
Undefined == "<undefined>"
Tokens == <<"c1", "c2", "c3", "c4">>
NoTs == 0
NoFile == [exists |-> FALSE, text |-> ""]
NoTsFile == -1

VARIABLES
  chain,            \* upstream: the pages served, in order
  sink,             \* USERS_FILE: sequence of lines (<<>> = absent)
  cursorFile,       \* CURSOR_FILE: [exists, text]
  tsFile,           \* TIMESTAMP_FILE: NoTsFile or the integer written
  now,              \* wall clock, seconds
  runs,             \* invocations started so far
  pc,               \* position of the running invocation ("idle" = none)
  fetchNewOnly,     \* process.env.FETCH_NEW_ONLY === "true"
  currentTimestamp, \* main: currentTimestamp
  sinceTimestamp,   \* getAllUsers: sinceTimestamp (NoTs = undefined)
  cursor,           \* getAllUsers: cursor
  isFirstBatch,     \* getAllUsers: isFirstBatch
  totalUsers,       \* getAllUsers: totalUsers (new records)
  processedUsers,   \* getAllUsers: processedUsers
  processedUserIds, \* module-level dedup set
  query,            \* getAllUsers: query (the page just fetched)
  exitStatus,       \* how the last invocation ended
  startCursor,      \* history: cursor the invocation loaded at start
  passStart,        \* history: clock when the pass in progress began
  passActive,       \* history: a pass has begun and not yet reached a null cursor
  reqs,             \* history: requests issued by this invocation
  drained,          \* history: request cursors whose page was appended in this pass
  lost,             \* history: drained, as of the end of the previous invocation
  rereq,            \* history: requests of this invocation for pages in lost
  sawFinal,         \* history: this invocation received an empty page with null cursor
  saves,            \* history: saveCursor calls of this invocation
  startCursorFile,  \* history: CURSOR_FILE as the invocation found it
  startTsFile,      \* history: TIMESTAMP_FILE as the invocation found it
  prevExit,         \* history: how the invocation before this one ended
  prevCursor,       \* history: getAllUsers' cursor when that invocation ended
  duplicates,       \* history: appendUsersToFile's duplicates, summed over the pages
  received,         \* history: records received by this invocation
  startSinkLen,     \* history: lines of USERS_FILE as the invocation found it
  retries,          \* fetchPageOfUsers: retries
  backoffMs,        \* fetchPageOfUsers: backoffMs
  prevDelay,        \* history: the delay slept before the last one (0 = none)
  sleeps,           \* history: number of backoff sleeps in this call
  fstate,           \* fetchPageOfUsers: "run", "ok", "httpError", "exhausted"
  url,              \* fetchPageOfUsers: url (the query parameters of the call)
  sentReq,          \* history: the request the last fetch(url) sent
  sent,             \* history: fetch(url) calls of this fetchPageOfUsers call
  n429,             \* history: 429 responses in this call
  nNet,             \* history: network failures in this call
  lastResp,         \* history: kind of the last response in this call
  result,           \* fetchPageOfUsers: the body returned (NoQuery before)
  badRun,           \* history: invocation that got a malformed body (0 = none)
  badSaves,         \* history: saves when that body arrived
  ioRun,            \* history: invocation whose startup read failed (0 = none)
  iter,             \* history: loop iterations of getAllUsers (CooldownSpec)
  cooldowns         \* history: batch cooldown sleeps of this invocation

driverVars == <<chain, sink, cursorFile, tsFile, now, runs, pc, fetchNewOnly,
                currentTimestamp, sinceTimestamp, cursor, isFirstBatch,
                totalUsers, processedUsers, processedUserIds, query,
                exitStatus, startCursor, passStart, passActive, reqs,
                drained, lost, rereq, sawFinal, saves, startCursorFile,
                startTsFile, prevExit, prevCursor, duplicates, received,
                startSinkLen>>
fetchVars == <<retries, backoffMs, prevDelay, sleeps, fstate, url, sentReq, sent,
               n429, nNet, lastResp, result>>
faultVars == <<badRun, badSaves, ioRun>>
coolVars == <<iter, cooldowns>>
notDriverVars == <<fetchVars, faultVars, coolVars>>
notFetchVars == <<driverVars, faultVars, coolVars>>
vars == <<driverVars, fetchVars, faultVars, coolVars>>

\* ------------------------------------------------------------- upstream
RECURSIVE SeqsUpTo(_, _)
SeqsUpTo(S, n) ==
  IF n = 0 THEN {<<>>}
  ELSE LET shorter == SeqsUpTo(S, n - 1)
       IN shorter \cup {Append(s, x) : s \in {t \in shorter : Len(t) = n - 1}, x \in S}

\* A page holds at most as many records as there are identifiers: that is
\* enough for a page to repeat an identifier or to list them all in either
\* order, and a longer page over the same identifiers only repeats more.
PageData == SeqsUpTo(Ids, Cardinality(Ids))
Chains == {c \in SeqsUpTo(PageData, MaxPages) : Len(c) >= 1}

\* JavaScript falsiness of a cursor value: null and undefined (and "", which
\* loadSavedCursor already turns into null).
Falsy(c) == c \in {Null, Undefined}

\* The page index a request cursor stands for: no cursor is the first page.
PageIndex(c) == IF Falsy(c) THEN 1 ELSE 1 + CHOOSE k \in 1..Len(Tokens) : Tokens[k] = c

\* The upstream's answer to GET /users?cursor=c: PrivyResponse.
Upstream(c) ==
  LET i == PageIndex(c)
  IN [data |-> chain[i],
      next_cursor |-> IF i < Len(chain) THEN Tokens[i] ELSE Null]

NoQuery == [data |-> <<>>, next_cursor |-> Null]

\* ------------------------------------------------------------ file helpers
\* saveCursor: fs.writeFileSync(CURSOR_FILE, cursor || "").
saveCursor(file, c) ==
  [exists |-> TRUE, text |-> IF Falsy(c) THEN "" ELSE c]

\* loadSavedCursor: the trimmed file content, or null when absent or empty.
loadSavedCursor_fresh(file) == Null
loadSavedCursor(file) ==
  IF file.exists THEN (IF file.text = "" THEN Null ELSE file.text) ELSE Null

\* fs.unlinkSync(CURSOR_FILE).
unlinkCursor_truncate(file) == [exists |-> TRUE, text |-> ""]
unlinkCursor(file) == NoFile

\* saveTimestamp: fs.writeFileSync(TIMESTAMP_FILE, timestamp.toString()).
saveTimestamp_completion(startTs, clock) == clock
saveTimestamp(startTs, clock) == startTs

\* main's catch block: the error is logged and the process exits with
\* status 1; the timestamp file keeps what it held.
catchTimestamp_saves(file, startTs) == startTs
catchTimestamp(file, startTs) == file

\* loadLastFetchTimestamp: parseInt(content, 10) || null, null when absent.
loadLastFetchTimestamp(file) == IF file = NoTsFile THEN NoTs ELSE file

\* main: the since-timestamp handed to getAllUsers.
ChooseSince(flag, last) == IF flag /\ last # NoTs THEN last ELSE NoTs

\* loadExistingUserIds: first column of every line but the first.
loadExistingUserIds(lines) == {lines[i] : i \in 2..Len(lines)}

\* appendUsersToFile, the forEach: the users not yet in processedUserIds,
\* each identifier once, in order.
RECURSIVE FilterNew(_, _)
FilterNew(users, seen) ==
  IF users = <<>> THEN <<>>
  ELSE LET u == Head(users)
       IN IF u \in seen THEN FilterNew(Tail(users), seen)
          ELSE <<u>> \o FilterNew(Tail(users), seen \cup {u})

\* appendUsersToFile, the forEach: its duplicates counter, incremented for
\* each user whose identifier the set holds when the user's turn comes.
RECURSIVE CountDuplicates(_, _)
CountDuplicates(users, seen) ==
  IF users = <<>> THEN 0
  ELSE LET u == Head(users)
       IN IF u \in seen THEN 1 + CountDuplicates(Tail(users), seen)
          ELSE CountDuplicates(Tail(users), seen \cup {u})

\* appendUsersToFile: the header is pushed on the first batch when the file
\* does not exist or has size 0.
ShouldAddHeader_whenNotEmpty(first, lines) == first /\ Len(lines) > 0
ShouldAddHeader(first, lines) == first /\ Len(lines) = 0

\* appendUsersToFile: the lines appended to USERS_FILE.
appendUsersToFile_pageStart(users, first, lines, seen) ==
  (IF ShouldAddHeader(first, lines) THEN <<Header>> ELSE <<>>)
    \o SelectSeq(users, LAMBDA u : u \notin seen)
appendUsersToFile_headerOnly(users, first, lines, seen) ==
  IF ShouldAddHeader(first, lines) THEN <<Header>> ELSE FilterNew(users, seen)
appendUsersToFile(users, first, lines, seen) ==
  (IF ShouldAddHeader(first, lines) THEN <<Header>> ELSE <<>>) \o FilterNew(users, seen)

Range(s) == {s[i] : i \in 1..Len(s)}

\* fetchPageOfUsers: the query parameters of the request.
Request(c, since) ==
  [cursor |-> IF Falsy(c) THEN Null ELSE c, created_after |-> since]

\* getAllUsers: the steady-state pacing sleep after a successful request, seconds.
PacingSec ==
  (IF rateLimitMs >= 60000 \div maxRequestsPerMinute
     THEN rateLimitMs ELSE 60000 \div maxRequestsPerMinute) \div 1000

\* getAllUsers: the batch cooldown sleep before a request, seconds.
CooldownSec(total) ==
  IF total > 0 /\ total % usersBatchSize = 0 THEN batchCooldownMs \div 1000 ELSE 0

\* getAllUsers: the do-while goes round again after the checkpoint.
LoopContinues_breakOnly(data, c) == ~(Len(data) = 0 /\ Falsy(c))
LoopContinues_whileEmpty(data, c) == c # Null \/ Len(data) = 0
LoopContinues_stopOnEmpty(data, c) == Len(data) > 0 /\ c # Null
LoopContinues(data, c) == ~(Len(data) = 0 /\ Falsy(c)) /\ c # Null

\* ------------------------------------------------------------------ driver
DriverIdle ==
  /\ sink = <<>>
  /\ cursorFile = NoFile
  /\ tsFile = NoTsFile
  /\ now = 1
  /\ runs = 0
  /\ pc = "idle"
  /\ fetchNewOnly = FALSE
  /\ currentTimestamp = NoTs
  /\ sinceTimestamp = NoTs
  /\ cursor = Null
  /\ isFirstBatch = FALSE
  /\ totalUsers = 0
  /\ processedUsers = 0
  /\ processedUserIds = {}
  /\ query = NoQuery
  /\ exitStatus = "none"
  /\ startCursor = Null
  /\ passStart = NoTs
  /\ passActive = FALSE
  /\ reqs = <<>>
  /\ drained = {}
  /\ lost = {}
  /\ rereq = 0
  /\ sawFinal = FALSE
  /\ saves = 0
  /\ startCursorFile = NoFile
  /\ startTsFile = NoTsFile
  /\ prevExit = "none"
  /\ prevCursor = Null
  /\ duplicates = 0
  /\ received = 0
  /\ startSinkLen = 0

FetchIdle ==
  /\ retries = 0
  /\ backoffMs = initialBackoffMs
  /\ prevDelay = 0
  /\ sleeps = 0
  /\ fstate = "idle"
  /\ url = Request(Null, NoTs)
  /\ sentReq = Request(Null, NoTs)
  /\ sent = 0
  /\ n429 = 0
  /\ nNet = 0
  /\ lastResp = "none"
  /\ result = NoQuery

FaultIdle == badRun = 0 /\ badSaves = 0 /\ ioRun = 0

CoolIdle == iter = 0 /\ cooldowns = 0

Init == chain \in Chains /\ DriverIdle /\ FetchIdle /\ FaultIdle /\ CoolIdle

\* The process is gone: its memory no longer matters.
Forget ==
  /\ sinceTimestamp' = NoTs
  /\ isFirstBatch' = FALSE
  /\ totalUsers' = 0
  /\ processedUsers' = 0
  /\ processedUserIds' = {}
  /\ query' = NoQuery
  /\ reqs' = <<>>
  /\ duplicates' = 0
  /\ received' = 0
  /\ startSinkLen' = 0

\* main up to the first loop iteration of getAllUsers: capture the start
\* time, rebuild the dedup set, read the timestamp and the cursor files.
StartReading(flag, failing) ==
  /\ pc = "idle"
  /\ runs < MaxRuns
  /\ LET c == IF "cursor" \in failing THEN Null ELSE loadSavedCursor(cursorFile)
     IN /\ cursor' = c
        /\ startCursor' = c
        /\ isFirstBatch' = (c = Null)
        /\ passStart' = IF c = Null THEN now ELSE passStart
        /\ drained' = IF c = Null THEN {} ELSE drained
  /\ runs' = runs + 1
  /\ fetchNewOnly' = flag
  /\ currentTimestamp' = now
  /\ processedUserIds' =
       IF "sink" \in failing THEN {} ELSE loadExistingUserIds(sink)
  /\ sinceTimestamp' =
       ChooseSince(flag, IF "timestamp" \in failing THEN NoTs
                         ELSE loadLastFetchTimestamp(tsFile))
  /\ totalUsers' = 0
  /\ processedUsers' = 0
  /\ query' = NoQuery
  /\ pc' = "loop"
  /\ passActive' = TRUE
  /\ reqs' = <<>>
  /\ rereq' = 0
  /\ sawFinal' = FALSE
  /\ saves' = 0
  /\ startCursorFile' = cursorFile
  /\ startTsFile' = tsFile
  /\ prevExit' = exitStatus
  /\ prevCursor' = cursor
  /\ duplicates' = 0
  /\ received' = 0
  /\ startSinkLen' = Len(sink)
  /\ UNCHANGED <<chain, sink, cursorFile, tsFile, now, exitStatus, lost,
                 fetchVars, coolVars, badRun, badSaves>>

\* An invocation whose reads at startup all succeed.
Start(flag) == StartReading(flag, {}) /\ UNCHANGED ioRun

\* The state files an invocation reads at startup: those that exist.
ReadAtStartup ==
  (IF cursorFile.exists THEN {"cursor"} ELSE {})
    \cup (IF tsFile # NoTsFile THEN {"timestamp"} ELSE {})
    \cup (IF Len(sink) > 0 THEN {"sink"} ELSE {})

\* An invocation for which readFileSync throws on some of the files it
\* reads at startup: each loader catches the error, warns, and returns as if
\* the file were absent.
StartReadError(flag, failing) ==
  /\ ioRun = 0
  /\ failing # {}
  /\ failing \subseteq ReadAtStartup
  /\ StartReading(flag, failing)
  /\ ioRun' = runs + 1

\* getAllUsers, top of the loop: the cooldown check, then fetchPageOfUsers
\* returns a page after its pacing sleep.
FetchBody(resp) ==
  /\ pc = "loop"
  /\ query' = resp
  /\ reqs' = Append(reqs, Request(cursor, sinceTimestamp))
  /\ rereq' = IF cursor \in lost THEN rereq + 1 ELSE rereq
  /\ sawFinal' = (Len(resp.data) = 0 /\ resp.next_cursor = Null)
  /\ now' = now + CooldownSec(totalUsers) + PacingSec
  /\ pc' = "fetched"
  /\ UNCHANGED <<chain, sink, cursorFile, tsFile, runs, fetchNewOnly, currentTimestamp,
                 sinceTimestamp, cursor, isFirstBatch, totalUsers, processedUsers,
                 processedUserIds, exitStatus, startCursor, passStart, passActive,
                 drained, lost, saves, startCursorFile, startTsFile, prevExit,
                 prevCursor, duplicates, received, startSinkLen,
                 fetchVars, coolVars, ioRun>>

\* The upstream answers with the well-formed page for the cursor.
FetchOk == FetchBody(Upstream(cursor)) /\ UNCHANGED <<badRun, badSaves>>

\* The upstream answers 2xx with a body whose data is an array and whose
\* next_cursor field is absent: getAllUsers tests data only.
FetchMalformedCursor ==
  /\ badRun = 0
  /\ FetchBody([Upstream(cursor) EXCEPT !.next_cursor = Undefined])
  /\ badRun' = runs
  /\ badSaves' = saves

\* fetchPageOfUsers throws (a non-429 HTTP error or exhausted network
\* retries), or the body has no data array: getAllUsers rethrows and main
\* exits with status 1, elapsed seconds after the request began.
Throw(elapsed) ==
  /\ pc = "loop"
  /\ now' = now + elapsed
  /\ reqs' = Append(reqs, Request(cursor, sinceTimestamp))
  /\ rereq' = IF cursor \in lost THEN rereq + 1 ELSE rereq
  /\ pc' = "idle"
  /\ exitStatus' = "1"
  /\ lost' = {}
  /\ sinceTimestamp' = NoTs
  /\ isFirstBatch' = FALSE
  /\ totalUsers' = 0
  /\ processedUsers' = 0
  /\ processedUserIds' = {}
  /\ query' = NoQuery
  /\ tsFile' = catchTimestamp(tsFile, currentTimestamp)
  /\ duplicates' = 0
  /\ received' = 0
  /\ startSinkLen' = 0
  /\ UNCHANGED <<chain, sink, cursorFile, runs, fetchNewOnly,
                 currentTimestamp, cursor, startCursor, passStart,
                 passActive, drained, sawFinal, saves, startCursorFile, startTsFile,
                 prevExit, prevCursor, fetchVars, coolVars, ioRun>>

\* fetchPageOfUsers throws.
FetchThrow == Throw(0) /\ UNCHANGED <<badRun, badSaves>>

\* The upstream answers 2xx with a body without a data array: getAllUsers
\* throws "Invalid response format" after the pacing sleep.
FetchMalformedData ==
  /\ badRun = 0
  /\ Throw(CooldownSec(totalUsers) + PacingSec)
  /\ badRun' = runs
  /\ badSaves' = saves

\* getAllUsers: a non-empty page goes through appendUsersToFile.
ProcessPage ==
  /\ pc = "fetched"
  /\ IF Len(query.data) > 0
       THEN LET csv == appendUsersToFile(query.data, isFirstBatch, sink, processedUserIds)
                new == FilterNew(query.data, processedUserIds)
            IN /\ sink' = sink \o csv
               /\ processedUserIds' = processedUserIds \cup Range(new)
               /\ processedUsers' = processedUsers + Len(query.data)
               /\ totalUsers' = totalUsers + Len(new)
               /\ isFirstBatch' = FALSE
               /\ drained' = drained \cup {cursor}
               /\ duplicates' = duplicates + CountDuplicates(query.data, processedUserIds)
               /\ received' = received + Len(query.data)
       ELSE UNCHANGED <<sink, processedUserIds, processedUsers, totalUsers,
                        isFirstBatch, drained, duplicates, received>>
  /\ pc' = "appended"
  /\ UNCHANGED <<chain, cursorFile, tsFile, now, runs, fetchNewOnly, currentTimestamp,
                 sinceTimestamp, cursor, query, exitStatus, startCursor, passStart,
                 passActive, reqs, lost, rereq, sawFinal, saves, startCursorFile,
                 startTsFile, prevExit, prevCursor, startSinkLen, notDriverVars>>

\* getAllUsers: cursor = query.next_cursor; saveCursor(cursor); then the
\* break and the while condition.
Checkpoint ==
  /\ pc = "appended"
  /\ cursor' = query.next_cursor
  /\ cursorFile' = saveCursor(cursorFile, query.next_cursor)
  /\ saves' = saves + 1
  /\ passActive' = (query.next_cursor # Null)
  /\ pc' = IF LoopContinues(query.data, query.next_cursor) THEN "loop" ELSE "unlink"
  /\ UNCHANGED <<chain, sink, tsFile, now, runs, fetchNewOnly, currentTimestamp,
                 sinceTimestamp, isFirstBatch, totalUsers, processedUsers,
                 processedUserIds, query, exitStatus, startCursor, passStart, reqs,
                 drained, lost, rereq, sawFinal, startCursorFile, startTsFile,
                 prevExit, prevCursor, duplicates, received, startSinkLen,
                 notDriverVars>>

\* getAllUsers after the loop: fs.unlinkSync(CURSOR_FILE).
ClearCursor ==
  /\ pc = "unlink"
  /\ cursorFile' = unlinkCursor(cursorFile)
  /\ pc' = "stamp"
  /\ UNCHANGED <<chain, sink, tsFile, now, runs, fetchNewOnly, currentTimestamp,
                 sinceTimestamp, cursor, isFirstBatch, totalUsers, processedUsers,
                 processedUserIds, query, exitStatus, startCursor, passStart,
                 passActive, reqs, drained, lost, rereq, sawFinal, saves,
                 startCursorFile, startTsFile, prevExit, prevCursor, duplicates, received, startSinkLen,
                 notDriverVars>>

\* main after getAllUsers returns: saveTimestamp(currentTimestamp), exit 0.
Finish ==
  /\ pc = "stamp"
  /\ tsFile' = saveTimestamp(currentTimestamp, now)
  /\ pc' = "idle"
  /\ exitStatus' = "0"
  /\ lost' = {}
  /\ Forget
  /\ UNCHANGED <<chain, sink, cursorFile, now, runs, fetchNewOnly, currentTimestamp,
                 cursor, startCursor, passStart, passActive,
                 drained, rereq, sawFinal, saves, startCursorFile, startTsFile,
                 prevExit, prevCursor, notDriverVars>>

\* The operating system terminates the process between two steps.
Kill ==
  /\ pc # "idle"
  /\ pc' = "idle"
  /\ exitStatus' = "killed"
  /\ lost' = drained
  /\ Forget
  /\ UNCHANGED <<chain, sink, cursorFile, tsFile, now, runs, fetchNewOnly,
                 currentTimestamp, cursor, startCursor, passStart, passActive,
                 drained, rereq, sawFinal, saves, startCursorFile, startTsFile,
                 prevExit, prevCursor, notDriverVars>>

Next ==
  \/ \E flag \in BOOLEAN : Start(flag)
  \/ FetchOk
  \/ FetchThrow
  \/ ProcessPage
  \/ Checkpoint
  \/ ClearCursor
  \/ Finish
  \/ Kill

Spec == Init /\ [][Next]_vars

\* The steps of a running invocation. The process is a single thread that
\* is never suspended for good, and each fetchPageOfUsers call meets only
\* finitely many 429 responses and network failures, so it returns or throws:
\* a step that stays possible is taken. Kill is the environment's and has
\* no fairness.
DriverStep ==
  FetchOk \/ FetchThrow \/ ProcessPage \/ Checkpoint \/ ClearCursor \/ Finish

\* Whether the loop goes on depends on a page only through its being empty
\* or not and through its cursor, so pages of at most one record are enough.
LiveInit ==
  /\ chain \in {c \in Chains : \A i \in 1..Len(c) : Len(c[i]) <= 1}
  /\ DriverIdle /\ FetchIdle /\ FaultIdle /\ CoolIdle

LiveSpec == LiveInit /\ [][Next]_vars /\ WF_vars(DriverStep)

\* Spec with one malformed body and one failing startup read at most.
FaultNext ==
  \/ Next
  \/ \E flag \in BOOLEAN, failing \in SUBSET {"cursor", "timestamp", "sink"} :
       StartReadError(flag, failing)
  \/ FetchMalformedCursor
  \/ FetchMalformedData

FaultSpec == Init /\ [][FaultNext]_vars

\* ------------------------------------------ getAllUsers, batch cooldown
\* The loop of getAllUsers reduced to its counters: pages are given by their
\* length and their number of new records, at the scale of usersBatchSize.
PageShapes ==
  {[len |-> 0, new |-> 0], [len |-> 1, new |-> 0], [len |-> 1, new |-> 1],
   [len |-> usersBatchSize \div 2, new |-> usersBatchSize \div 2],
   [len |-> usersBatchSize - 1, new |-> usersBatchSize - 1]}

CooldownInit ==
  chain = <<<<>>>> /\ DriverIdle /\ FetchIdle /\ FaultIdle /\ CoolIdle

\* What the counter loop leaves alone.
CooldownFrame ==
  UNCHANGED <<chain, sink, cursorFile, tsFile, now, runs, fetchNewOnly,
              currentTimestamp, sinceTimestamp, cursor, isFirstBatch,
              processedUserIds, query, exitStatus, startCursor, passStart,
              passActive, reqs, drained, lost, rereq, sawFinal, saves,
              startCursorFile, startTsFile, prevExit, prevCursor, duplicates, received, startSinkLen,
              fetchVars,
              faultVars>>

\* getAllUsers is entered: totalUsers = 0, processedUsers = 0.
CoolBegin ==
  /\ pc = "idle"
  /\ pc' = "check"
  /\ totalUsers' = 0
  /\ processedUsers' = 0
  /\ iter' = 0
  /\ cooldowns' = 0
  /\ CooldownFrame

\* Top of the loop: sleep(batchCooldownMs) when the test holds.
CoolCheck ==
  /\ pc = "check"
  /\ iter < MaxCoolPages
  /\ cooldowns' = IF CooldownSec(totalUsers) > 0 THEN cooldowns + 1 ELSE cooldowns
  /\ pc' = "request"
  /\ UNCHANGED <<totalUsers, processedUsers, iter>>
  /\ CooldownFrame

\* The request and the rest of the iteration, for a page of shape p with a
\* cursor to go on with.
CoolPage(p) ==
  /\ pc = "request"
  /\ processedUsers' = processedUsers + p.len
  /\ totalUsers' = totalUsers + p.new
  /\ iter' = iter + 1
  /\ pc' = "check"
  /\ UNCHANGED cooldowns
  /\ CooldownFrame

\* The loop ends (null cursor) and the invocation with it.
CoolEnd ==
  /\ pc = "check"
  /\ iter > 0
  /\ pc' = "idle"
  /\ UNCHANGED <<totalUsers, processedUsers, iter, cooldowns>>
  /\ CooldownFrame

CooldownNext ==
  \/ CoolBegin
  \/ CoolCheck
  \/ \E p \in PageShapes : CoolPage(p)
  \/ CoolEnd

CooldownSpec == CooldownInit /\ [][CooldownNext]_vars

\* ------------------------------------------- fetchPageOfUsers, retry loop
\* Delays are integers in milliseconds; the jitter multiplier
\* 1 + (Math.random() * 2 - 1) * jitterFactor is taken in thousandths, at
\* both ends of its range, at the middle and halfway.
Jitters ==
  {1000 - jitterFactorPermille, 1000 - jitterFactorPermille \div 2, 1000,
   1000 + jitterFactorPermille \div 2, 1000 + jitterFactorPermille}

Min(x, y) == IF x <= y THEN x ELSE y

\* backoffMs = Math.min(backoffMs * backoffFactor * jitter, maxBackoffMs).
NextBackoff_uncapped(b, j) == (b * backoffFactor * j) \div 1000
NextBackoff(b, j) == Min((b * backoffFactor * j) \div 1000, maxBackoffMs)

\* The pages the upstream serves in BackoffSpec.
BackoffChain == <<<<"a">>, <<"b">>>>

BackoffInit ==
  chain = BackoffChain /\ DriverIdle /\ FetchIdle /\ FaultIdle /\ CoolIdle

\* A call of fetchPageOfUsers(c, since) begins: the url is built once,
\* retries = 0, backoffMs = initialBackoffMs.
BeginFetch(c, since) ==
  /\ fstate # "run"
  /\ fstate' = "run"
  /\ url' = Request(c, since)
  /\ retries' = 0
  /\ backoffMs' = initialBackoffMs
  /\ prevDelay' = 0
  /\ sleeps' = 0
  /\ sent' = 0
  /\ n429' = 0
  /\ nNet' = 0
  /\ lastResp' = "none"
  /\ result' = NoQuery
  /\ UNCHANGED <<sentReq, notFetchVars>>

\* The response has status 429: back off and go round again.
Resp429_capped(j) ==
  /\ fstate = "run"
  /\ retries < MaxRetries
  /\ sentReq' = url
  /\ sent' = sent + 1
  /\ n429' = n429 + 1
  /\ lastResp' = "429"
  /\ retries' = retries + 1
  /\ IF retries + 1 > maxNetworkRetries
       THEN /\ fstate' = "exhausted"
            /\ UNCHANGED <<backoffMs, prevDelay, sleeps>>
       ELSE /\ backoffMs' = NextBackoff(backoffMs, j)
            /\ prevDelay' = IF sleeps = 0 THEN 0 ELSE backoffMs
            /\ sleeps' = sleeps + 1
            /\ UNCHANGED fstate
  /\ UNCHANGED <<url, nNet, result, notFetchVars>>
Resp429(j) ==
  /\ fstate = "run"
  /\ retries < MaxRetries
  /\ sentReq' = url
  /\ sent' = sent + 1
  /\ n429' = n429 + 1
  /\ lastResp' = "429"
  /\ retries' = retries + 1
  /\ backoffMs' = NextBackoff(backoffMs, j)
  /\ prevDelay' = IF sleeps = 0 THEN 0 ELSE backoffMs
  /\ sleeps' = sleeps + 1
  /\ UNCHANGED <<fstate, url, nNet, result, notFetchVars>>

\* fetch() rejects (a network failure): the catch block counts it, gives up
\* once retries exceeds 5, else backs off and goes round again.
RespNetworkError(j) ==
  /\ fstate = "run"
  /\ retries < MaxRetries
  /\ sentReq' = url
  /\ sent' = sent + 1
  /\ nNet' = nNet + 1
  /\ lastResp' = "network"
  /\ retries' = retries + 1
  /\ IF retries + 1 > maxNetworkRetries
       THEN /\ fstate' = "exhausted"
            /\ UNCHANGED <<backoffMs, prevDelay, sleeps>>
       ELSE /\ backoffMs' = NextBackoff(backoffMs, j)
            /\ prevDelay' = IF sleeps = 0 THEN 0 ELSE backoffMs
            /\ sleeps' = sleeps + 1
            /\ UNCHANGED fstate
  /\ UNCHANGED <<url, n429, result, notFetchVars>>

\* Any other non-2xx status: the error is thrown and rethrown by the catch.
RespHttpError_retried ==
  /\ fstate = "run"
  /\ retries < MaxRetries
  /\ sentReq' = url
  /\ sent' = sent + 1
  /\ lastResp' = "http"
  /\ retries' = retries + 1
  /\ IF retries + 1 > maxNetworkRetries
       THEN /\ fstate' = "exhausted"
            /\ UNCHANGED <<backoffMs, prevDelay, sleeps>>
       ELSE /\ \E j \in Jitters : backoffMs' = NextBackoff(backoffMs, j)
            /\ prevDelay' = IF sleeps = 0 THEN 0 ELSE backoffMs
            /\ sleeps' = sleeps + 1
            /\ UNCHANGED fstate
  /\ UNCHANGED <<url, n429, nNet, result, notFetchVars>>
RespHttpError ==
  /\ fstate = "run"
  /\ sentReq' = url
  /\ sent' = sent + 1
  /\ lastResp' = "http"
  /\ fstate' = "httpError"
  /\ UNCHANGED <<retries, backoffMs, prevDelay, sleeps, url, n429, nNet, result,
                 notFetchVars>>

\* A 2xx response: the pacing sleep, then the body is returned.
RespOk ==
  /\ fstate = "run"
  /\ sentReq' = url
  /\ sent' = sent + 1
  /\ lastResp' = "ok"
  /\ fstate' = "ok"
  /\ result' = Upstream(url.cursor)
  /\ UNCHANGED <<retries, backoffMs, prevDelay, sleeps, url, n429, nNet,
                 notFetchVars>>

BackoffNext ==
  \/ \E c \in {Null, Tokens[1]}, since \in {NoTs, 1} : BeginFetch(c, since)
  \/ \E j \in Jitters : Resp429(j)
  \/ \E j \in Jitters : RespNetworkError(j)
  \/ RespHttpError
  \/ RespOk

BackoffSpec == BackoffInit /\ [][BackoffNext]_vars

\* ------------------------------------------------------------- properties
\* The record identifiers that have a row in the sink.
RowIds == Range(sink) \ {Header}

\* The record identifiers the upstream serves over the whole chain.
ChainIds == UNION {Range(chain[i]) : i \in 1..Len(chain)}

\* The number of pages a pass has been through when the cursor file holds
\* text: all of them once the final null cursor was written as "".
PagesBefore(text) ==
  IF text = "" THEN Len(chain)
  ELSE CHOOSE k \in 1..Len(Tokens) : Tokens[k] = text

Ended(status) == pc = "idle" /\ exitStatus = status

\* C1: no duplicate output: every record identifier has at most one row in
\* the sink, in every reachable state.
NoDuplicateOutput ==
  \A i, j \in 1..Len(sink) : (i < j /\ sink[i] # Header) => sink[i] # sink[j]

\* C2: idempotent resume: when an invocation completes, however many kills
\* and restarts came before it, the identifiers in the sink are exactly
\* those an uninterrupted run over the chain exports.
IdempotentResume == Ended("0") => RowIds = ChainIds

IdempotentResumeWitness ==
  /\ Ended("0")
  /\ prevExit = "killed"
  /\ startCursor # Null
  /\ RowIds = Ids

\* C3: the cursor checkpoint never runs ahead of the sink: every record of
\* every page before the persisted cursor has a row in the sink.
CheckpointNotAhead ==
  cursorFile.exists =>
    \A i \in 1..PagesBefore(cursorFile.text) : Range(chain[i]) \subseteq RowIds

CheckpointNotAheadWitness ==
  /\ Ended("killed")
  /\ cursorFile.exists
  /\ cursorFile.text = Tokens[1]
  /\ chain[1] # <<>>
  /\ Range(chain[1]) \subseteq RowIds

\* C4: watermark correctness: an invocation that completes leaves its start
\* time in the timestamp file, not a later time, and an incremental
\* invocation that starts without a cursor sends that time as created_after
\* on every page request.
WatermarkCorrect ==
  /\ Ended("0") => (tsFile = currentTimestamp /\ tsFile < now)
  /\ (pc # "idle" /\ fetchNewOnly /\ startCursor = Null /\ tsFile # NoTsFile)
       => \A i \in 1..Len(reqs) : reqs[i].created_after = tsFile

WatermarkCorrectWitness ==
  /\ pc = "fetched"
  /\ fetchNewOnly
  /\ startCursor = Null
  /\ prevExit = "0"
  /\ Len(reqs) = 2
  /\ reqs[2].created_after = tsFile
  /\ tsFile < currentTimestamp

\* C5: watermark of a resumed pass: when an invocation that resumed from a
\* persisted cursor completes, the watermark equals the time the pass began.
ResumedWatermarkIsPassStart ==
  (Ended("0") /\ startCursor # Null) => tsFile = passStart

\* C6: a kill loses at most the in-flight page: the invocation after a kill
\* re-requests at most one page whose records were already in the sink.
KillLosesAtMostOnePage == rereq <= 1

\* C7: a fatal error while paging leaves the cursor file as the last
\* checkpoint (or as the invocation found it), the timestamp file as the
\* invocation found it, and the next invocation's first request uses that
\* cursor.
FailedLeavesState ==
  /\ Ended("1") =>
       /\ cursorFile = IF saves = 0 THEN startCursorFile
                       ELSE [exists |-> TRUE, text |-> cursor]
       /\ saves > 0 => cursor # Null
       /\ tsFile = startTsFile
  /\ (pc # "idle" /\ prevExit = "1" /\ Len(reqs) >= 1)
       => reqs[1].cursor = prevCursor

FailedLeavesStateWitness ==
  /\ pc = "fetched"
  /\ prevExit = "1"
  /\ prevCursor = Tokens[1]
  /\ reqs[1].cursor = Tokens[1]
  /\ tsFile # NoTsFile

\* C8: DONE retires the cursor: after an exit with status 0 the cursor file
\* is absent, the next invocation starts without a cursor, and the file holds
\* a non-empty cursor only while a pass is in progress.
DoneRetiresCursor ==
  /\ Ended("0") => ~cursorFile.exists
  /\ (pc # "idle" /\ prevExit = "0") => startCursor = Null
  /\ (cursorFile.exists /\ cursorFile.text # "") => passActive

DoneRetiresCursorWitness ==
  /\ Ended("0")
  /\ ~cursorFile.exists
  /\ saves = 2
  /\ ~passActive

\* C9: termination on the final page: once a response with no records and a
\* null cursor has arrived, the invocation is never again at the top of the
\* loop, its last request stays the one that got that response, and it does
\* not end in failure.
TerminationOnFinalPage ==
  sawFinal =>
    /\ pc \in {"fetched", "appended", "unlink", "stamp", "idle"}
    /\ pc = "idle" => exitStatus \in {"0", "killed"}
    /\ pc # "idle" =>
         /\ Len(reqs) >= 1
         /\ Upstream(reqs[Len(reqs)].cursor) = NoQuery

TerminationOnFinalPageWitness ==
  /\ sawFinal
  /\ pc = "stamp"
  /\ startCursor # Null
  /\ cursor = Null

\* C10: backoff bound and monotonicity: within a call, every delay slept is
\* at most maxBackoffMs and at least the delay slept before it.
BackoffBounded ==
  sleeps > 0 => (backoffMs <= maxBackoffMs /\ backoffMs >= prevDelay)

BackoffBoundedWitness ==
  /\ fstate = "run"
  /\ sleeps >= 2
  /\ backoffMs = maxBackoffMs
  /\ prevDelay = maxBackoffMs

\* C11: a call that meets only 429 responses before a 2xx response sends the
\* same request on every attempt, sleeps exactly once per 429, is never given
\* up on however many 429s arrive, and returns the page the upstream serves
\* for its cursor (so the driver appends what it would have appended had no
\* 429 been answered).
RateLimitNeverFatal ==
  /\ sent > 0 => sentReq = url
  /\ nNet = 0 /\ fstate \in {"run", "ok"} => sleeps = n429
  /\ fstate = "exhausted" => nNet > 0
  /\ fstate = "ok" => result = Upstream(url.cursor)

RateLimitNeverFatalWitness ==
  /\ fstate = "ok"
  /\ nNet = 0
  /\ n429 > maxNetworkRetries
  /\ sleeps = n429
  /\ result.data # <<>>

\* C12: a call fails with exhausted retries only on its sixth network
\* failure, however many 429 responses came before or between.
IndependentRetryCounters ==
  fstate = "exhausted" => nNet = maxNetworkRetries + 1

\* C18: a non-2xx status other than 429 ends the call at once: the call has
\* failed, no backoff sleep follows that response (every earlier attempt was
\* followed by one sleep), whatever 429s or network failures came before.
NonRetryableHttpError ==
  lastResp = "http" =>
    /\ fstate = "httpError"
    /\ sent = sleeps + 1
    /\ retries = n429 + nNet

NonRetryableHttpErrorWitness ==
  /\ lastResp = "http"
  /\ fstate = "httpError"
  /\ n429 > 0
  /\ nNet > 0

ResumeIgnoresSince ==
  startCursor # Null => \A i \in 1..Len(reqs) : reqs[i].created_after = NoTs

\* C15: whenever the sink is not empty its first line is the header and
\* every other line is a record row.
SinkHeaderInvariant ==
  Len(sink) > 0 =>
    /\ sink[1] = Header
    /\ \A i \in 2..Len(sink) : sink[i] \in Ids

\* All records of the chain, page after page.
RECURSIVE AllRecords(_)
AllRecords(c) ==
  IF c = <<>> THEN <<>> ELSE AllRecords(SubSeq(c, 1, Len(c) - 1)) \o c[Len(c)]

\* The elements of s, each at its first occurrence.
RECURSIVE FirstOccurrences(_)
FirstOccurrences(s) ==
  IF s = <<>> THEN <<>>
  ELSE LET front == SubSeq(s, 1, Len(s) - 1)
           last == s[Len(s)]
       IN IF \E k \in 1..Len(front) : front[k] = last
            THEN FirstOccurrences(front)
            ELSE Append(FirstOccurrences(front), last)

\* C20 (as stated): a first invocation that starts with no cursor file and
\* no sink and completes leaves the header followed by one row per distinct
\* identifier, in order of first occurrence, and no cursor file.
FreshRunResult ==
  (runs = 1 /\ Ended("0")) =>
    /\ sink = <<Header>> \o FirstOccurrences(AllRecords(chain))
    /\ ~cursorFile.exists

\* C20 (amended): the same, except that a chain without any record leaves
\* no sink at all (no header line is written).
FreshRunResultNonEmpty ==
  (runs = 1 /\ Ended("0")) =>
    /\ sink = IF AllRecords(chain) = <<>>
                THEN <<>>
                ELSE <<Header>> \o FirstOccurrences(AllRecords(chain))
    /\ ~cursorFile.exists

FreshRunResultNonEmptyWitness ==
  /\ runs = 1
  /\ Ended("0")
  /\ Len(AllRecords(chain)) > Len(FirstOccurrences(AllRecords(chain)))
  /\ Len(sink) = 1 + Cardinality(Ids)
  /\ sink[1] = Header
  /\ ~cursorFile.exists

\* C16: once an invocation has received a malformed 2xx body it only fails:
\* it processes nothing further, writes no cursor checkpoint and does not
\* complete.
MalformedResponseFatal ==
  (badRun # 0 /\ badRun = runs) =>
    /\ pc \in {"fetched", "idle"}
    /\ pc = "idle" => exitStatus # "0"
    /\ saves = badSaves

\* C17: an invocation for which a read of the cursor file, the timestamp
\* file or the existing sink failed at startup issues no page request,
\* appends nothing and does not complete.
StateReadFailureFatal ==
  (ioRun # 0 /\ ioRun = runs) =>
    /\ pc \in {"loop", "idle"}
    /\ pc = "idle" => exitStatus # "0"
    /\ reqs = <<>>
    /\ saves = 0

\* C19: when a page request is about to be sent, the invocation has slept
\* one cooldown for each multiple of usersBatchSize its count of new records
\* has reached or passed, and no more.
BatchCooldown ==
  pc = "request" => cooldowns = totalUsers \div usersBatchSize

\* The record rows the running invocation has appended to the sink, and the
\* dedup set its startup built from the sink it found.
AddedRows ==
  SelectSeq(SubSeq(sink, startSinkLen + 1, Len(sink)), LAMBDA l : l # Header)

StartIndex == loadExistingUserIds(SubSeq(sink, 1, startSinkLen))

\* C21: duplicate accounting: in a running invocation the new count is the
\* number of rows appended, the processed count is the number of records
\* received, new plus duplicates is the number received, no appended row
\* repeats an identifier the dedup set already held (from the sink at
\* startup, an earlier page or earlier in the same page), and every record
\* of a processed page is in the dedup set.
DuplicateAccounting ==
  pc # "idle" =>
    /\ totalUsers = Len(AddedRows)
    /\ processedUsers = received
    /\ totalUsers + duplicates = received
    /\ Range(AddedRows) \cap StartIndex = {}
    /\ Cardinality(Range(AddedRows)) = Len(AddedRows)
    /\ processedUserIds = StartIndex \cup Range(AddedRows)
    /\ pc = "appended" => Range(query.data) \subseteq processedUserIds

DuplicateAccountingWitness ==
  /\ pc = "appended"
  /\ StartIndex # {}
  /\ Range(query.data) \cap StartIndex # {}
  /\ Cardinality(Range(query.data)) < Len(query.data)
  /\ duplicates >= 2
  /\ totalUsers + duplicates = received

\* The page requests an invocation can still make: the pages of the chain
\* from the one its start cursor stands for.
PagesAhead == Len(chain) - PageIndex(startCursor) + 1

\* C22: driver liveness: an invocation never makes more page requests than
\* the chain has pages from its start cursor on, and every invocation that
\* has started eventually ends (exit 0, exit 1, or killed).
DriverTerminates ==
  /\ [](Len(reqs) <= PagesAhead)
  /\ (pc # "idle") ~> (pc = "idle")

DriverTerminatesWitness ==
  /\ Ended("0")
  /\ runs = MaxRuns
  /\ startCursor # Null
  /\ prevExit = "1"
  /\ saves > 0

====
